---------------------------- MODULE Spec2Model ----------------------------
(***************************************************************************)
(* Model of the manage-vault projection calculator                        *)
(* (applyManageVaultCalculations, src/unnamed/part_002) and of the         *)
(* transaction manager (createTransactionManager, src/unnamed/part_001).   *)
(* The two are independent: Spec runs the calculator, ManagerSpec the      *)
(* transaction manager.                                                    *)
(*                                                                         *)
(* The calculator is a pure function over bignumber.js values.  A          *)
(* BigNumber is modelled as a pair <<n, d>>:                               *)
(*   d > 0           the finite value n/d, kept in lowest terms            *)
(*   <<1, 0>>        Infinity                                              *)
(*   <<-1, 0>>       -Infinity                                             *)
(*   <<0, 0>>        NaN                                                   *)
(* plus, minus and times are exact; div rounds its quotient to             *)
(* DECIMAL_PLACES decimal places, half away from zero (the library's       *)
(* ROUND_HALF_UP).  The library's default is 20 places; the model works    *)
(* at a reduced precision so that every intermediate fits TLC's integers.  *)
(* Division by zero does not raise in bignumber.js: it yields Infinity,    *)
(* -Infinity or NaN.  isPositive() tests the sign field, which is positive *)
(* for zero.  The inputs are non-negative, so a negative zero never        *)
(* arises and the sign of zero is not modelled.                            *)
(* A JavaScript `undefined` amount is the empty tuple; every BigNumber     *)
(* object, zero included, is truthy.                                       *)
(***************************************************************************)
EXTENDS Integers, Sequences, FiniteSets, TLC

\* the calculator: its input state, its calculated fields, its position
VARIABLES state, calc, pc

\* the transaction manager: the sources that have emitted so far, the latest
\* value of transactions$ and of onrampOrders$, the clock in seconds, the
\* value last emitted to the subscribers (the empty tuple until the first
\* one), and whether the last source event emitted a value
VARIABLES started, transactions, onrampOrders, now, manager, delivered

calculatorVars == <<state, calc, pc>>

managerVars == <<started, transactions, onrampOrders, now, manager, delivered>>

vars == <<state, calc, pc, started, transactions, onrampOrders, now, manager, delivered>>

\* the transaction manager before it is subscribed
ManagerIdle ==
    /\ started = {}
    /\ transactions = <<>>
    /\ onrampOrders = <<>>
    /\ now = 0
    /\ manager = <<>>
    /\ delivered = FALSE

--------------------------------------------------------------------------
(* Bounds of the model *)

\* decimal places kept by div (bignumber.js DECIMAL_PLACES, 20 in the library)
DECIMAL_PLACES == 2

\* lockedCollateral ranges over 0..MaxCollateral
MaxCollateral == 1

\* debt ranges over 0..MaxDebt
MaxDebt == 1

\* transactions$ and onrampOrders$ together hold at most MaxTransactions entries
MaxTransactions == 2

\* a lastChange is 0 or MaxLastChange (seconds)
MaxLastChange == 2

\* the clock stops at MaxNow (seconds)
MaxNow == 13

--------------------------------------------------------------------------
(* bignumber.js values *)

RECURSIVE GCD(_, _)
GCD(a, b) == IF b = 0 THEN a ELSE GCD(b, a % b)

Abs(i) == IF i < 0 THEN -i ELSE i

Sgn(i) == IF i > 0 THEN 1 ELSE IF i < 0 THEN -1 ELSE 0

RECURSIVE Pow10(_)
Pow10(k) == IF k = 0 THEN 1 ELSE 10 * Pow10(k - 1)

\* the finite value n/d (d /= 0), in lowest terms with a positive denominator
Num(n, d) ==
    LET g == GCD(Abs(n), Abs(d))
        s == IF d < 0 THEN -1 ELSE 1
    IN  <<(s * n) \div g, (s * d) \div g>>

Int2BN(i) == <<i, 1>>

zero == <<0, 1>>

Infinity == <<1, 0>>

NegInfinity == <<-1, 0>>

NaN == <<0, 0>>

undefined == <<>>

isNaN(x) == x = NaN

isFinite(x) == x[2] > 0

\* x.negated()
negated(x) == <<-x[1], x[2]>>

\* x.plus(y)
plus(x, y) ==
    IF isNaN(x) \/ isNaN(y) THEN NaN
    ELSE IF ~isFinite(x) THEN (IF ~isFinite(y) /\ y # x THEN NaN ELSE x)
    ELSE IF ~isFinite(y) THEN y
    ELSE Num(x[1] * y[2] + y[1] * x[2], x[2] * y[2])

\* x.minus(y)
minus(x, y) == plus(x, negated(y))

\* x.times(y)
times(x, y) ==
    IF isNaN(x) \/ isNaN(y) THEN NaN
    ELSE IF ~isFinite(x) \/ ~isFinite(y)
         THEN (IF x[1] = 0 \/ y[1] = 0 THEN NaN
               ELSE <<Sgn(x[1]) * Sgn(y[1]), 0>>)
    ELSE Num(x[1] * y[1], x[2] * y[2])

\* the quotient a/b (b > 0) rounded to DECIMAL_PLACES places, half away from zero
RoundHalfUp(a, b) ==
    LET S == Pow10(DECIMAL_PLACES)
        q == (2 * Abs(a) * S + b) \div (2 * b)
    IN  Num(Sgn(a) * q, S)

\* x.div(y): never raises; n/0 is an Infinity, 0/0 is NaN
div(x, y) ==
    IF isNaN(x) \/ isNaN(y) THEN NaN
    ELSE IF ~isFinite(x) THEN
         (IF ~isFinite(y) THEN NaN
          ELSE <<x[1] * (IF y[1] < 0 THEN -1 ELSE 1), 0>>)
    ELSE IF ~isFinite(y) THEN zero
    ELSE IF y[1] = 0 THEN (IF x[1] = 0 THEN NaN ELSE <<Sgn(x[1]), 0>>)
    ELSE RoundHalfUp(x[1] * y[2] * Sgn(y[1]), x[2] * Abs(y[1]))

\* the sign of x - y for x, y not NaN
compare(x, y) ==
    IF isFinite(x) /\ isFinite(y) THEN Sgn(x[1] * y[2] - y[1] * x[2])
    ELSE IF isFinite(x) THEN -y[1]
    ELSE IF isFinite(y) THEN x[1]
    ELSE Sgn(x[1] - y[1])

\* x.gte(y), x.gt(y), x.lt(y): false when either side is NaN
gte(x, y) == ~isNaN(x) /\ ~isNaN(y) /\ compare(x, y) >= 0

gt(x, y) == ~isNaN(x) /\ ~isNaN(y) /\ compare(x, y) > 0

lt(x, y) == ~isNaN(x) /\ ~isNaN(y) /\ compare(x, y) < 0

\* x.isPositive(): the sign field is positive; true of zero, false of NaN
isPositive(x) == ~isNaN(x) /\ x[1] >= 0

\* BigNumber.minimum(x, y): NaN if either is NaN
minimum(x, y) ==
    IF isNaN(x) \/ isNaN(y) THEN NaN
    ELSE IF compare(x, y) <= 0 THEN x ELSE y

\* JavaScript truthiness of an optional BigNumber: any object is truthy
truthy(x) == x # undefined

\* x || zero
orZero(x) == IF truthy(x) THEN x ELSE zero

--------------------------------------------------------------------------
(* The calculator, src/unnamed/part_002 *)

PAYBACK_ALL_BOUND == Num(1, 100)

defaultManageVaultCalculations ==
    [ maxDepositAmount |-> zero,
      maxDepositAmountUSD |-> zero,
      maxWithdrawAmountAtCurrentPrice |-> zero,
      maxWithdrawAmountAtNextPrice |-> zero,
      maxWithdrawAmount |-> zero,
      maxWithdrawAmountUSD |-> zero,
      maxGenerateAmount |-> zero,
      maxGenerateAmountAtCurrentPrice |-> zero,
      maxGenerateAmountAtNextPrice |-> zero,
      maxPaybackAmount |-> zero,
      afterDebt |-> zero,
      afterCollateralizationRatio |-> zero,
      afterCollateralizationRatioAtNextPrice |-> zero,
      afterLiquidationPrice |-> zero,
      afterFreeCollateral |-> zero,
      afterFreeCollateralAtNextPrice |-> zero,
      afterBackingCollateral |-> zero,
      afterBackingCollateralAtNextPrice |-> zero,
      afterLockedCollateral |-> zero,
      daiYieldFromTotalCollateral |-> zero,
      daiYieldFromTotalCollateralAtNextPrice |-> zero,
      shouldPaybackAll |-> FALSE ]

determineShouldPaybackAll(paybackAmount, debt, debtOffset, daiBalance) ==
    /\ isPositive(debt)
    /\ gte(daiBalance, plus(debt, debtOffset))
    /\ truthy(paybackAmount)
    /\ gte(plus(paybackAmount, PAYBACK_ALL_BOUND), debt)
    /\ ~gt(paybackAmount, debt)

\* mutant: a withdrawAmount takes precedence over a depositAmount
calculateAfterLockedCollateral_withdrawFirst(lockedCollateral, depositAmount, withdrawAmount) ==
    LET amount == IF truthy(withdrawAmount) THEN minus(lockedCollateral, withdrawAmount)
                  ELSE IF truthy(depositAmount) THEN plus(lockedCollateral, depositAmount)
                  ELSE lockedCollateral
    IN  IF gte(amount, zero) THEN amount ELSE zero

\* mutant: the result is not clamped at zero
calculateAfterLockedCollateral_unclamped(lockedCollateral, depositAmount, withdrawAmount) ==
    IF truthy(depositAmount) THEN plus(lockedCollateral, depositAmount)
    ELSE IF truthy(withdrawAmount) THEN minus(lockedCollateral, withdrawAmount)
    ELSE lockedCollateral

calculateAfterLockedCollateral(lockedCollateral, depositAmount, withdrawAmount) ==
    LET amount == IF truthy(depositAmount) THEN plus(lockedCollateral, depositAmount)
                  ELSE IF truthy(withdrawAmount) THEN minus(lockedCollateral, withdrawAmount)
                  ELSE lockedCollateral
    IN  IF gte(amount, zero) THEN amount ELSE zero

\* mutant: a generateAmount takes precedence over shouldPaybackAll
calculateAfterDebt_generateFirst(shouldPaybackAll, generateAmount, paybackAmount, debt) ==
    LET amount == IF truthy(generateAmount) THEN plus(debt, generateAmount)
                  ELSE IF shouldPaybackAll THEN zero
                  ELSE IF truthy(paybackAmount) THEN minus(debt, paybackAmount)
                  ELSE debt
    IN  IF gte(amount, zero) THEN amount ELSE zero

calculateAfterDebt(shouldPaybackAll, generateAmount, paybackAmount, debt) ==
    IF shouldPaybackAll THEN zero
    ELSE LET amount == IF truthy(generateAmount) THEN plus(debt, generateAmount)
                       ELSE IF truthy(paybackAmount) THEN minus(debt, paybackAmount)
                       ELSE debt
         IN  IF gte(amount, zero) THEN amount ELSE zero

calculateAfterBackingCollateral(afterDebt, liquidationRatio, price) ==
    IF ~isPositive(afterDebt) THEN zero
    ELSE div(times(afterDebt, liquidationRatio), price)

calculateAfterFreeCollateral(lockedCollateral, backingCollateral) ==
    LET amount == minus(lockedCollateral, backingCollateral)
    IN  IF gte(amount, zero) THEN amount ELSE zero

\* the debt figure calculateMaxWithdrawAmount backs: generateAmount is not passed
afterDebtWithOffset(paybackAmount, shouldPaybackAll, debt, debtOffset) ==
    LET afterDebt == calculateAfterDebt(shouldPaybackAll, undefined, paybackAmount, debt)
    IN  IF isPositive(afterDebt) THEN plus(afterDebt, debtOffset) ELSE afterDebt

\* mutant: the liquidation ratio is left out of the backing collateral
calculateMaxWithdrawAmount_noRatio(paybackAmount, shouldPaybackAll, lockedCollateral, debt, debtOffset, liquidationRatio, price) ==
    LET backingCollateral ==
            calculateAfterBackingCollateral(
                afterDebtWithOffset(paybackAmount, shouldPaybackAll, debt, debtOffset),
                Int2BN(1), price)
    IN  calculateAfterFreeCollateral(lockedCollateral, backingCollateral)

calculateMaxWithdrawAmount(paybackAmount, shouldPaybackAll, lockedCollateral, debt, debtOffset, liquidationRatio, price) ==
    LET backingCollateral ==
            calculateAfterBackingCollateral(
                afterDebtWithOffset(paybackAmount, shouldPaybackAll, debt, debtOffset),
                liquidationRatio, price)
    IN  calculateAfterFreeCollateral(lockedCollateral, backingCollateral)

\* mutant: the yield is not clamped against the debt ceiling
calculateDaiYieldFromCollateral_uncapped(debt, liquidationRatio, generateAmount, paybackAmount, price, collateral, ilkDebtAvailable) ==
    LET daiYield == minus(div(times(collateral, price), liquidationRatio), debt)
    IN  IF ~isPositive(daiYield) THEN zero ELSE daiYield

calculateDaiYieldFromCollateral(debt, liquidationRatio, generateAmount, paybackAmount, price, collateral, ilkDebtAvailable) ==
    LET daiYield == minus(div(times(collateral, price), liquidationRatio), debt)
    IN  IF ~isPositive(daiYield) THEN zero
        ELSE IF gt(daiYield, ilkDebtAvailable) THEN
             (IF isPositive(ilkDebtAvailable)
              THEN LET amount == minus(plus(ilkDebtAvailable, orZero(paybackAmount)),
                                       orZero(generateAmount))
                   IN  IF gte(amount, zero) THEN amount ELSE zero
              ELSE zero)
        ELSE daiYield

\* mutant: the debt is not increased by debtOffset
calculateMaxGenerateAmount_noOffset(depositAmount, generateAmount, debt, debtOffset, lockedCollateral, liquidationRatio, price, ilkDebtAvailable) ==
    LET afterLockedCollateral ==
            calculateAfterLockedCollateral(lockedCollateral, depositAmount, undefined)
    IN  calculateDaiYieldFromCollateral(debt, liquidationRatio, generateAmount, undefined,
                                        price, afterLockedCollateral, ilkDebtAvailable)

calculateMaxGenerateAmount(depositAmount, generateAmount, debt, debtOffset, lockedCollateral, liquidationRatio, price, ilkDebtAvailable) ==
    LET afterLockedCollateral ==
            calculateAfterLockedCollateral(lockedCollateral, depositAmount, undefined)
    IN  calculateDaiYieldFromCollateral(plus(debt, debtOffset), liquidationRatio,
                                        generateAmount, undefined, price,
                                        afterLockedCollateral, ilkDebtAvailable)

afterCollateralizationRatioAt(afterLockedCollateralUSD, afterDebt) ==
    IF isPositive(afterLockedCollateralUSD) /\ isPositive(afterDebt)
    THEN div(afterLockedCollateralUSD, afterDebt)
    ELSE zero

calculateAfterLiquidationPrice(afterDebt, liquidationRatio, afterLockedCollateral) ==
    IF isPositive(afterDebt) /\ isPositive(afterLockedCollateral)
    THEN div(times(afterDebt, liquidationRatio), afterLockedCollateral)
    ELSE zero

applyManageVaultCalculations(s) ==
    LET depositAmount == s.depositAmount
        generateAmount == s.generateAmount
        withdrawAmount == s.withdrawAmount
        paybackAmount == s.paybackAmount
        collateralBalance == s.balanceInfo.collateralBalance
        daiBalance == s.balanceInfo.daiBalance
        liquidationRatio == s.ilkData.liquidationRatio
        ilkDebtAvailable == s.ilkData.ilkDebtAvailable
        currentCollateralPrice == s.priceInfo.currentCollateralPrice
        nextCollateralPrice == s.priceInfo.nextCollateralPrice
        lockedCollateral == s.vault.lockedCollateral
        debt == s.vault.debt
        debtOffset == s.vault.debtOffset
        shouldPaybackAll ==
            determineShouldPaybackAll(paybackAmount, debt, debtOffset, daiBalance)
        afterLockedCollateral ==
            calculateAfterLockedCollateral(lockedCollateral, depositAmount, withdrawAmount)
        afterLockedCollateralUSD == times(afterLockedCollateral, currentCollateralPrice)
        afterLockedCollateralUSDAtNextPrice == times(afterLockedCollateral, nextCollateralPrice)
        afterDebt == calculateAfterDebt(shouldPaybackAll, generateAmount, paybackAmount, debt)
        afterBackingCollateral ==
            calculateAfterBackingCollateral(afterDebt, liquidationRatio, currentCollateralPrice)
        afterBackingCollateralAtNextPrice ==
            calculateAfterBackingCollateral(afterDebt, liquidationRatio, nextCollateralPrice)
        maxWithdrawAmountAtCurrentPrice ==
            calculateMaxWithdrawAmount(paybackAmount, shouldPaybackAll, lockedCollateral,
                                       debt, debtOffset, liquidationRatio,
                                       currentCollateralPrice)
        maxWithdrawAmountAtNextPrice ==
            calculateMaxWithdrawAmount(paybackAmount, shouldPaybackAll, lockedCollateral,
                                       debt, debtOffset, liquidationRatio,
                                       nextCollateralPrice)
        maxWithdrawAmount ==
            minimum(maxWithdrawAmountAtCurrentPrice, maxWithdrawAmountAtNextPrice)
        maxGenerateAmountAtCurrentPrice ==
            calculateMaxGenerateAmount(depositAmount, undefined, debt, debtOffset,
                                       lockedCollateral, liquidationRatio,
                                       currentCollateralPrice, ilkDebtAvailable)
        maxGenerateAmountAtNextPrice ==
            calculateMaxGenerateAmount(depositAmount, undefined, debt, debtOffset,
                                       lockedCollateral, liquidationRatio,
                                       nextCollateralPrice, ilkDebtAvailable)
    IN  [ maxDepositAmount |-> collateralBalance,
          maxDepositAmountUSD |-> times(collateralBalance, currentCollateralPrice),
          maxWithdrawAmountAtCurrentPrice |-> maxWithdrawAmountAtCurrentPrice,
          maxWithdrawAmountAtNextPrice |-> maxWithdrawAmountAtNextPrice,
          maxWithdrawAmount |-> maxWithdrawAmount,
          maxWithdrawAmountUSD |-> times(maxWithdrawAmount, currentCollateralPrice),
          maxGenerateAmount |->
              minimum(maxGenerateAmountAtCurrentPrice, maxGenerateAmountAtNextPrice),
          maxGenerateAmountAtCurrentPrice |-> maxGenerateAmountAtCurrentPrice,
          maxGenerateAmountAtNextPrice |-> maxGenerateAmountAtNextPrice,
          maxPaybackAmount |-> IF lt(daiBalance, debt) THEN daiBalance ELSE debt,
          afterDebt |-> afterDebt,
          afterCollateralizationRatio |->
              afterCollateralizationRatioAt(afterLockedCollateralUSD, afterDebt),
          afterCollateralizationRatioAtNextPrice |->
              afterCollateralizationRatioAt(afterLockedCollateralUSDAtNextPrice, afterDebt),
          afterLiquidationPrice |->
              calculateAfterLiquidationPrice(afterDebt, liquidationRatio,
                                             afterLockedCollateral),
          afterFreeCollateral |->
              calculateAfterFreeCollateral(afterLockedCollateral, afterBackingCollateral),
          afterFreeCollateralAtNextPrice |->
              calculateAfterFreeCollateral(afterLockedCollateral,
                                           afterBackingCollateralAtNextPrice),
          afterBackingCollateral |-> afterBackingCollateral,
          afterBackingCollateralAtNextPrice |-> afterBackingCollateralAtNextPrice,
          afterLockedCollateral |-> afterLockedCollateral,
          daiYieldFromTotalCollateral |->
              calculateDaiYieldFromCollateral(afterDebt, liquidationRatio, generateAmount,
                                              paybackAmount, currentCollateralPrice,
                                              afterLockedCollateral, ilkDebtAvailable),
          daiYieldFromTotalCollateralAtNextPrice |->
              calculateDaiYieldFromCollateral(afterDebt, liquidationRatio, generateAmount,
                                              paybackAmount, nextCollateralPrice,
                                              afterLockedCollateral, ilkDebtAvailable),
          shouldPaybackAll |-> shouldPaybackAll ]

\* The divisor of every division one run of applyManageVaultCalculations
\* performs: a division is performed when the code's guard before it passes.
divisorsOfBackingCollateral(afterDebt, price) ==
    IF ~isPositive(afterDebt) THEN {} ELSE {price}

divisorsOfCollateralizationRatio(afterLockedCollateralUSD, afterDebt) ==
    IF isPositive(afterLockedCollateralUSD) /\ isPositive(afterDebt)
    THEN {afterDebt} ELSE {}

divisorsOfLiquidationPrice(afterDebt, afterLockedCollateral) ==
    IF isPositive(afterDebt) /\ isPositive(afterLockedCollateral)
    THEN {afterLockedCollateral} ELSE {}

divisors(s) ==
    LET r == applyManageVaultCalculations(s)
        withOffset == afterDebtWithOffset(s.paybackAmount, r.shouldPaybackAll,
                                          s.vault.debt, s.vault.debtOffset)
        prices == {s.priceInfo.currentCollateralPrice, s.priceInfo.nextCollateralPrice}
    IN  UNION {divisorsOfBackingCollateral(r.afterDebt, p) : p \in prices}
        \cup UNION {divisorsOfBackingCollateral(withOffset, p) : p \in prices}
        \cup {s.ilkData.liquidationRatio}
        \cup UNION {divisorsOfCollateralizationRatio(
                        times(r.afterLockedCollateral, p), r.afterDebt) : p \in prices}
        \cup divisorsOfLiquidationPrice(r.afterDebt, r.afterLockedCollateral)

--------------------------------------------------------------------------
(* Input states: non-negative on-chain quantities (zero included), a       *)
(* liquidation ratio above 1, a debt ceiling headroom that may be          *)
(* exhausted or overdrawn, and user amounts that are unset, zero or        *)
(* positive.                                                               *)

DepositAmounts == {undefined, zero, Int2BN(1)}

WithdrawAmounts == {undefined, Int2BN(1)}

GenerateAmounts == {undefined, zero, Int2BN(1)}

\* against a debt of 1: outside (0), on the edge of (0.99) and at the top of (1)
\* the PAYBACK_ALL_BOUND band
PaybackAmounts == {undefined, zero, Num(99, 100), Int2BN(1)}

LockedCollaterals == {Int2BN(i) : i \in 0..MaxCollateral}

Debts == {Int2BN(i) : i \in 0..MaxDebt}

\* no accrual buffer, and one whose backing collateral the division rounds
DebtOffsets == {zero, Num(3, 100)}

DaiBalances == {zero, Int2BN(MaxDebt + 1)}

CollateralBalances == {Int2BN(1)}

\* 150% and 200%
LiquidationRatios == {Num(3, 2), Int2BN(2)}

\* overdrawn, exhausted, tighter than and looser than the collateral's yield
IlkDebtsAvailable == {Int2BN(-1), zero, Int2BN(1), Int2BN(10)}

\* no price, and two prices the quotients round differently at
Prices == {zero, Int2BN(1), Int2BN(4)}

InputStates ==
    [ depositAmount : DepositAmounts,
      withdrawAmount : WithdrawAmounts,
      generateAmount : GenerateAmounts,
      paybackAmount : PaybackAmounts,
      balanceInfo : [collateralBalance : CollateralBalances, daiBalance : DaiBalances],
      ilkData : [liquidationRatio : LiquidationRatios,
                 ilkDebtAvailable : IlkDebtsAvailable],
      priceInfo : [currentCollateralPrice : Prices, nextCollateralPrice : Prices],
      vault : [lockedCollateral : LockedCollaterals, debt : Debts,
               debtOffset : DebtOffsets] ]

Init ==
    /\ state \in InputStates
    /\ calc = defaultManageVaultCalculations
    /\ pc = "input"
    /\ ManagerIdle

\* state' = applyManageVaultCalculations(state): the input fields are kept
\* ({...state, ...}) and every calculated field is replaced
ApplyCalculations ==
    /\ pc = "input"
    /\ calc' = applyManageVaultCalculations(state)
    /\ pc' = "calculated"
    /\ UNCHANGED state
    /\ UNCHANGED managerVars

Next == ApplyCalculations

Spec == Init /\ [][Next]_vars

calculated == pc = "calculated"

--------------------------------------------------------------------------
(* Helpers of the properties *)

\* max(0, x) over BigNumbers
Max0(x) == IF gte(x, zero) THEN x ELSE zero

\* x > 0
strictlyPositive(x) == gt(x, zero)

inDepositAmount == state.depositAmount

inWithdrawAmount == state.withdrawAmount

inGenerateAmount == state.generateAmount

inPaybackAmount == state.paybackAmount

inLockedCollateral == state.vault.lockedCollateral

inDebt == state.vault.debt

inDebtOffset == state.vault.debtOffset

inDaiBalance == state.balanceInfo.daiBalance

inLiquidationRatio == state.ilkData.liquidationRatio

inIlkDebtAvailable == state.ilkData.ilkDebtAvailable

inCurrentPrice == state.priceInfo.currentCollateralPrice

inNextPrice == state.priceInfo.nextCollateralPrice

--------------------------------------------------------------------------
(* C1: for every input state, each projected collateral/debt quantity of   *)
(* the result (afterLockedCollateral, afterDebt, afterBackingCollateral,   *)
(* afterBackingCollateralAtNextPrice, afterFreeCollateral,                 *)
(* afterFreeCollateralAtNextPrice) is >= 0.                                *)
C1_AfterQuantitiesNonNegative ==
    calculated =>
        /\ gte(calc.afterLockedCollateral, zero)
        /\ gte(calc.afterDebt, zero)
        /\ gte(calc.afterBackingCollateral, zero)
        /\ gte(calc.afterBackingCollateralAtNextPrice, zero)
        /\ gte(calc.afterFreeCollateral, zero)
        /\ gte(calc.afterFreeCollateralAtNextPrice, zero)

(* C2: every division of applyManageVaultCalculations is guarded: at each  *)
(* division performed (by price, by liquidationRatio, by afterDebt, by     *)
(* afterLockedCollateral) the divisor is strictly positive.                *)
C2_DivisorsStrictlyPositive ==
    calculated => \A d \in divisors(state) : strictlyPositive(d)

(* C3: shouldPaybackAll is true if and only if debt > 0, daiBalance >=     *)
(* debt + debtOffset, paybackAmount is set, paybackAmount + 0.01 >= debt   *)
(* and paybackAmount <= debt; it is false whenever daiBalance < debt +     *)
(* debtOffset.                                                             *)
C3_ShouldPaybackAllIff ==
    calculated =>
        /\ calc.shouldPaybackAll <=>
              /\ strictlyPositive(inDebt)
              /\ gte(inDaiBalance, plus(inDebt, inDebtOffset))
              /\ inPaybackAmount # undefined
              /\ gte(plus(inPaybackAmount, Num(1, 100)), inDebt)
              /\ ~gt(inPaybackAmount, inDebt)
        /\ lt(inDaiBalance, plus(inDebt, inDebtOffset)) => ~calc.shouldPaybackAll

(* C4: afterLockedCollateral is max(0, lockedCollateral + depositAmount)   *)
(* when a deposit is made, max(0, lockedCollateral - withdrawAmount) when  *)
(* a withdrawal (and no deposit) is made, and max(0, lockedCollateral)     *)
(* when neither amount is set; locked=10, deposit=5 gives 15 and           *)
(* locked=50, withdraw=60 gives 0.                                         *)
C4_AfterLockedCollateral ==
    /\ calculateAfterLockedCollateral(Int2BN(10), Int2BN(5), undefined) = Int2BN(15)
    /\ calculateAfterLockedCollateral(Int2BN(50), undefined, Int2BN(60)) = zero
    /\ calculated =>
          calc.afterLockedCollateral =
              IF inDepositAmount # undefined
              THEN Max0(plus(inLockedCollateral, inDepositAmount))
              ELSE IF inWithdrawAmount # undefined
              THEN Max0(minus(inLockedCollateral, inWithdrawAmount))
              ELSE Max0(inLockedCollateral)

\* a withdrawal larger than the locked collateral has been clamped to zero
C4_Witness ==
    /\ calculated
    /\ inDepositAmount = undefined
    /\ inWithdrawAmount # undefined
    /\ gt(inWithdrawAmount, inLockedCollateral)
    /\ calc.afterLockedCollateral = zero

(* C5: afterDebt is 0 whenever shouldPaybackAll is true, even if           *)
(* generateAmount is also set; otherwise it is max(0, debt +               *)
(* generateAmount) when generating, max(0, debt - paybackAmount) when      *)
(* paying back, and max(0, debt) when neither is set.                      *)
C5_AfterDebt ==
    calculated =>
        calc.afterDebt =
            IF calc.shouldPaybackAll THEN zero
            ELSE IF inGenerateAmount # undefined
            THEN Max0(plus(inDebt, inGenerateAmount))
            ELSE IF inPaybackAmount # undefined
            THEN Max0(minus(inDebt, inPaybackAmount))
            ELSE Max0(inDebt)

\* the whole of a positive debt is paid back while a positive amount is generated
C5_Witness ==
    /\ calculated
    /\ calc.shouldPaybackAll
    /\ strictlyPositive(inDebt)
    /\ inGenerateAmount # undefined
    /\ strictlyPositive(inGenerateAmount)
    /\ calc.afterDebt = zero

--------------------------------------------------------------------------
\* the debt after the proposed payback alone (generateAmount left aside)
debtAfterPayback ==
    IF calc.shouldPaybackAll THEN zero
    ELSE IF inPaybackAmount # undefined THEN Max0(minus(inDebt, inPaybackAmount))
    ELSE Max0(inDebt)

\* C6's D: the debt after the payback, increased by debtOffset when positive
debtAfterPaybackWithOffset ==
    IF strictlyPositive(debtAfterPayback) THEN plus(debtAfterPayback, inDebtOffset)
    ELSE debtAfterPayback

C6_MaxWithdrawAt(price) ==
    Max0(minus(inLockedCollateral,
               div(times(debtAfterPaybackWithOffset, inLiquidationRatio), price)))

(* C6: maxWithdrawAmount = min(maxWithdrawAmountAtCurrentPrice,            *)
(* maxWithdrawAmountAtNextPrice), each being max(0, lockedCollateral -     *)
(* D * liquidationRatio / price) at its price, where D is the debt after   *)
(* the proposed payback, increased by debtOffset when that debt is         *)
(* positive.                                                               *)
C6_MaxWithdrawAmount ==
    calculated =>
        /\ calc.maxWithdrawAmount =
               minimum(calc.maxWithdrawAmountAtCurrentPrice,
                       calc.maxWithdrawAmountAtNextPrice)
        /\ calc.maxWithdrawAmountAtCurrentPrice = C6_MaxWithdrawAt(inCurrentPrice)
        /\ calc.maxWithdrawAmountAtNextPrice = C6_MaxWithdrawAt(inNextPrice)

\* C7's premises: positive prices and liquidation ratio, a positive maxWithdrawAmount
C7_Premises ==
    /\ calculated
    /\ strictlyPositive(inCurrentPrice)
    /\ strictlyPositive(inNextPrice)
    /\ strictlyPositive(inLiquidationRatio)
    /\ strictlyPositive(calc.maxWithdrawAmount)

\* the collateral left after withdrawing maxWithdrawAmount, valued at price
C7_RemainingValue(price) ==
    times(minus(inLockedCollateral, calc.maxWithdrawAmount), price)

\* half a unit in the last decimal place div keeps
HalfUlp == Num(1, 2 * Pow10(DECIMAL_PLACES))

(* C7 as stated: withdrawing maxWithdrawAmount leaves, at the current and  *)
(* at the next price, collateral worth at least afterDebt *                *)
(* liquidationRatio, afterDebt being the projected debt of the same        *)
(* result (generateAmount included).                                       *)
C7_Original ==
    C7_Premises =>
        \A price \in {inCurrentPrice, inNextPrice} :
            gte(C7_RemainingValue(price), times(calc.afterDebt, inLiquidationRatio))

(* C7 amended: withdrawing maxWithdrawAmount leaves, at the current and at *)
(* the next price, collateral worth at least D * liquidationRatio less     *)
(* the rounding of the division (half a unit in its last decimal place,    *)
(* times the price), D being the debt after the proposed payback alone:    *)
(* a generateAmount is not taken into account.                             *)
C7_MaxWithdrawSafeAfterPayback ==
    C7_Premises =>
        \A price \in {inCurrentPrice, inNextPrice} :
            gte(plus(C7_RemainingValue(price), times(price, HalfUlp)),
                times(debtAfterPayback, inLiquidationRatio))

\* a positive maxWithdrawAmount against a positive remaining debt, at two
\* different prices, while an amount is being generated
C7_Witness ==
    /\ C7_Premises
    /\ inCurrentPrice # inNextPrice
    /\ strictlyPositive(debtAfterPayback)
    /\ inGenerateAmount # undefined
    /\ strictlyPositive(inGenerateAmount)
    /\ lt(calc.maxWithdrawAmount, inLockedCollateral)

--------------------------------------------------------------------------
\* the yield before any clamp: afterLockedCollateral * price / liquidationRatio - afterDebt
C8_UncappedYield(price) ==
    minus(div(times(calc.afterLockedCollateral, price), inLiquidationRatio),
          calc.afterDebt)

C8_OriginalAt(yield, price) ==
    /\ gte(yield, zero)
    /\ strictlyPositive(inIlkDebtAvailable) => ~gt(yield, inIlkDebtAvailable)
    /\ (gt(C8_UncappedYield(price), inIlkDebtAvailable)
            /\ ~strictlyPositive(inIlkDebtAvailable)) => yield = zero

(* C8 as stated: daiYieldFromTotalCollateral and                           *)
(* daiYieldFromTotalCollateralAtNextPrice are >= 0, never exceed a         *)
(* positive ilkDebtAvailable, and are 0 whenever the uncapped yield        *)
(* exceeds a non-positive ilkDebtAvailable.                                *)
C8_Original ==
    calculated =>
        /\ C8_OriginalAt(calc.daiYieldFromTotalCollateral, inCurrentPrice)
        /\ C8_OriginalAt(calc.daiYieldFromTotalCollateralAtNextPrice, inNextPrice)

C8_AmendedAt(yield, price) ==
    /\ gte(yield, zero)
    /\ ~gt(yield, plus(Max0(inIlkDebtAvailable), orZero(inPaybackAmount)))
    /\ (gt(C8_UncappedYield(price), inIlkDebtAvailable)
            /\ lt(inIlkDebtAvailable, zero)) => yield = zero

(* C8 amended: daiYieldFromTotalCollateral and                             *)
(* daiYieldFromTotalCollateralAtNextPrice are >= 0 and never exceed        *)
(* max(0, ilkDebtAvailable) + paybackAmount (the ceiling's headroom once   *)
(* the proposed payback has freed its share; paybackAmount counts as 0     *)
(* when unset), and are 0 whenever the uncapped yield exceeds a negative   *)
(* ilkDebtAvailable.                                                       *)
C8_DaiYieldWithinCeilingPlusPayback ==
    calculated =>
        /\ C8_AmendedAt(calc.daiYieldFromTotalCollateral, inCurrentPrice)
        /\ C8_AmendedAt(calc.daiYieldFromTotalCollateralAtNextPrice, inNextPrice)

\* the uncapped yield exceeds a positive ceiling, a payback is proposed, and
\* the yield is the ceiling plus the payback
C8_Witness ==
    /\ calculated
    /\ strictlyPositive(inIlkDebtAvailable)
    /\ inPaybackAmount # undefined
    /\ strictlyPositive(inPaybackAmount)
    /\ inGenerateAmount = undefined
    /\ gt(C8_UncappedYield(inCurrentPrice), inIlkDebtAvailable)
    /\ calc.daiYieldFromTotalCollateral = plus(inIlkDebtAvailable, inPaybackAmount)

--------------------------------------------------------------------------
\* the yield of lockedCollateral + depositAmount against debt + debtOffset at
\* price, kept between 0 and max(0, ilkDebtAvailable)
C9_YieldAt(price) ==
    LET collateral == IF inDepositAmount # undefined
                      THEN Max0(plus(inLockedCollateral, inDepositAmount))
                      ELSE Max0(inLockedCollateral)
        uncapped == minus(div(times(collateral, price), inLiquidationRatio),
                          plus(inDebt, inDebtOffset))
    IN  minimum(Max0(uncapped), Max0(inIlkDebtAvailable))

(* C9: maxGenerateAmount = min(maxGenerateAmountAtCurrentPrice,            *)
(* maxGenerateAmountAtNextPrice), each being the yield of                  *)
(* (lockedCollateral + depositAmount) against debt + debtOffset at that    *)
(* price, and maxGenerateAmount lies between 0 and max(0,                  *)
(* ilkDebtAvailable).                                                      *)
C9_MaxGenerateAmount ==
    calculated =>
        /\ calc.maxGenerateAmount =
               minimum(calc.maxGenerateAmountAtCurrentPrice,
                       calc.maxGenerateAmountAtNextPrice)
        /\ calc.maxGenerateAmountAtCurrentPrice = C9_YieldAt(inCurrentPrice)
        /\ calc.maxGenerateAmountAtNextPrice = C9_YieldAt(inNextPrice)
        /\ gte(calc.maxGenerateAmount, zero)
        /\ ~gt(calc.maxGenerateAmount, Max0(inIlkDebtAvailable))

\* a deposit into a vault with debt and an accrual buffer: the next price gives
\* the smaller, positive yield, below the ceiling
C9_Witness ==
    /\ calculated
    /\ inDepositAmount # undefined
    /\ strictlyPositive(inDepositAmount)
    /\ strictlyPositive(inDebt)
    /\ strictlyPositive(inDebtOffset)
    /\ gt(calc.maxGenerateAmountAtCurrentPrice, calc.maxGenerateAmountAtNextPrice)
    /\ strictlyPositive(calc.maxGenerateAmount)
    /\ lt(calc.maxGenerateAmount, inIlkDebtAvailable)

--------------------------------------------------------------------------
C10_RatioAt(price) ==
    LET afterLockedCollateralUSD == times(calc.afterLockedCollateral, price)
    IN  IF strictlyPositive(afterLockedCollateralUSD) /\ strictlyPositive(calc.afterDebt)
        THEN div(afterLockedCollateralUSD, calc.afterDebt)
        ELSE zero

(* C10: afterCollateralizationRatio (afterCollateralizationRatioAtNextPrice)*)
(* is afterLockedCollateral * price / afterDebt at the current (next)      *)
(* price when both afterLockedCollateral * price and afterDebt are         *)
(* strictly positive, and 0 otherwise; it is 0 whenever afterDebt is 0.    *)
C10_AfterCollateralizationRatio ==
    calculated =>
        /\ calc.afterCollateralizationRatio = C10_RatioAt(inCurrentPrice)
        /\ calc.afterCollateralizationRatioAtNextPrice = C10_RatioAt(inNextPrice)
        /\ calc.afterDebt = zero =>
              /\ calc.afterCollateralizationRatio = zero
              /\ calc.afterCollateralizationRatioAtNextPrice = zero

--------------------------------------------------------------------------
(* C11: afterLiquidationPrice equals afterDebt * liquidationRatio /        *)
(* afterLockedCollateral when afterDebt > 0 and afterLockedCollateral > 0, *)
(* and is 0 when either operand is non-positive.                           *)
C11_AfterLiquidationPrice ==
    calculated =>
        calc.afterLiquidationPrice =
            IF strictlyPositive(calc.afterDebt) /\ strictlyPositive(calc.afterLockedCollateral)
            THEN div(times(calc.afterDebt, inLiquidationRatio), calc.afterLockedCollateral)
            ELSE zero

--------------------------------------------------------------------------
(* C18: when both depositAmount and withdrawAmount are set (even if        *)
(* depositAmount is zero) only the deposit applies: afterLockedCollateral  *)
(* = max(0, lockedCollateral + depositAmount); when both generateAmount    *)
(* and paybackAmount are set and shouldPaybackAll is false only the        *)
(* generation applies: afterDebt = max(0, debt + generateAmount).          *)
C18_DepositAndGenerateTakePrecedence ==
    calculated =>
        /\ (inDepositAmount # undefined /\ inWithdrawAmount # undefined) =>
               calc.afterLockedCollateral = Max0(plus(inLockedCollateral, inDepositAmount))
        /\ (inGenerateAmount # undefined /\ inPaybackAmount # undefined
                /\ ~calc.shouldPaybackAll) =>
               calc.afterDebt = Max0(plus(inDebt, inGenerateAmount))

\* a zero deposit has hidden a positive withdrawal, and a generation has
\* hidden a positive payback
C18_Witness ==
    /\ calculated
    /\ inDepositAmount = zero
    /\ inWithdrawAmount # undefined
    /\ strictlyPositive(inWithdrawAmount)
    /\ strictlyPositive(inLockedCollateral)
    /\ calc.afterLockedCollateral = inLockedCollateral
    /\ inGenerateAmount # undefined
    /\ inPaybackAmount # undefined
    /\ strictlyPositive(inPaybackAmount)
    /\ strictlyPositive(inDebt)
    /\ ~calc.shouldPaybackAll
    /\ calc.afterDebt = plus(inDebt, inGenerateAmount)

--------------------------------------------------------------------------
(* The transaction manager (src/unnamed/part_001).                         *)
(*                                                                         *)
(* A Date is a number of seconds.  A TxState is [txNo, status,             *)
(* lastChange]; an OnrampOrder is [id, type, status, date]; a              *)
(* TxMgrTransaction is [kind, id, status, lastChange, raw].  isDone and    *)
(* the TxStatus values are those of @oasisdex/transactions.                *)

\* moment(...).add(10, 'seconds'): how long a result is notified
NotificationSeconds == 10

\* TxStatus (@oasisdex/transactions)
TxStatus == {"WaitingForApproval", "CancelledByTheUser", "Propagating", "WaitingForConfirmation", "Success", "Error", "Failure"}

\* isDone (@oasisdex/transactions)
isDone(raw) == raw.status \in {"CancelledByTheUser", "Error", "Failure", "Success"}

isTxDone(tr) ==
    \/ (tr.kind = "blockchain" /\ isDone(tr.raw))
    \/ ((tr.kind = "wyre" \/ tr.kind = "moonpay" \/ tr.kind = "latamex")
            /\ tr.status \in {"complete", "failed"})

\* txNo.toString()
toString(txNo) == <<"1", "2", "3", "4", "5", "6", "7", "8", "9">>[txNo]

txState2Transaction(raw) ==
    [kind |-> "blockchain", id |-> toString(raw.txNo), status |-> raw.status, lastChange |-> raw.lastChange, raw |-> raw]

wyreOrder2Transaction(raw) ==
    [id |-> raw.id, kind |-> "wyre", status |-> raw.status, lastChange |-> raw.date, raw |-> raw]

moonpayOrder2Transaction(raw) ==
    [id |-> raw.id, kind |-> "moonpay", status |-> raw.status, lastChange |-> raw.date, raw |-> raw]

latamexOrder2Transaction(raw) ==
    [id |-> raw.id, kind |-> "latamex", status |-> raw.status, lastChange |-> raw.date, raw |-> raw]

\* the message of the Error compareTransactions throws
ShouldNotGetHere == "Should not get here!"

\* mutant: a done transaction sorts before one that is not done
compareTransactions_doneFirst(t1, t2) ==
    IF isTxDone(t1) = isTxDone(t2) THEN t2.lastChange - t1.lastChange
    ELSE IF isTxDone(t1) /\ ~isTxDone(t2) THEN -1
    ELSE 1

\* the number returned, or the message of the Error thrown
compareTransactions(t1, t2) ==
    LET t1Done == isTxDone(t1)
        t2Done == isTxDone(t2)
    IN  IF t1Done = t2Done THEN t2.lastChange - t1.lastChange
        ELSE IF t1Done /\ ~t2Done THEN 1
        ELSE IF ~t1Done /\ t2Done THEN -1
        ELSE ShouldNotGetHere

\* whether Array.prototype.sort(compareTransactions) throws: the comparator
\* is called on pairs of distinct elements, in an order the engine chooses
sortThrows(list) ==
    \E i, j \in 1..Len(list) : i # j /\ compareTransactions(list[i], list[j]) \notin Int

\* Array.prototype.sort(compareTransactions), a stable sort: the last element
\* goes behind every element of the sorted rest that does not sort after it
RECURSIVE sort(_)
sort(list) ==
    IF Len(list) <= 1 THEN list
    ELSE LET n == Len(list)
             rest == sort(SubSeq(list, 1, n - 1))
             k == Cardinality({i \in 1..(n - 1) : compareTransactions(rest[i], list[n]) <= 0})
         IN  SubSeq(rest, 1, k) \o <<list[n]>> \o SubSeq(rest, k + 1, n - 1)

\* transactions.map(txState2Transaction).concat(the wyre orders).concat(the
\* moonpay orders).concat(the latamex orders)
allTransactionsOf(txs, orders) ==
    LET wyreOrders == SelectSeq(orders, LAMBDA o : o.type = "wyre")
        moonpayOrders == SelectSeq(orders, LAMBDA o : o.type = "moonpay")
        latamexOrders == SelectSeq(orders, LAMBDA o : o.type = "latamex")
    IN  [i \in 1..Len(txs) |-> txState2Transaction(txs[i])]
            \o [i \in 1..Len(wyreOrders) |-> wyreOrder2Transaction(wyreOrders[i])]
            \o [i \in 1..Len(moonpayOrders) |-> moonpayOrder2Transaction(moonpayOrders[i])]
            \o [i \in 1..Len(latamexOrders) |-> latamexOrder2Transaction(latamexOrders[i])]

\* mutant: 'pending' is not a case of the switch
statusCase_withoutPending(status) ==
    IF status \in {"initialized", "WaitingForApproval"} THEN "sign"
    ELSE IF status \in {"Propagating", "WaitingForConfirmation"} THEN "submitted"
    ELSE IF status \in {"accepted", "completed", "complete", "Success"} THEN "success"
    ELSE IF status \in {"rejected", "expired", "incomplete", "failed", "CancelledByTheUser", "Error", "Failure"} THEN "error"
    ELSE "default"

\* the case of switch (tx.status) a status falls in
statusCase(status) ==
    IF status \in {"initialized", "WaitingForApproval"} THEN "sign"
    ELSE IF status \in {"pending", "Propagating", "WaitingForConfirmation"} THEN "submitted"
    ELSE IF status \in {"accepted", "completed", "complete", "Success"} THEN "success"
    ELSE IF status \in {"rejected", "expired", "incomplete", "failed", "CancelledByTheUser", "Error", "Failure"} THEN "error"
    ELSE "default"

\* the transactions pushed to the arrays of the cases
transactionsOfCases(txs, cases) == SelectSeq(txs, LAMBDA tx : statusCase(tx.status) \in cases)

\* mutant: a result is notified for ever
isBeforeNotificationEnd_always(date, tx) == TRUE

\* moment(new Date()) < moment(tx.lastChange).add(10, 'seconds')
isBeforeNotificationEnd(date, tx) == date < tx.lastChange + NotificationSeconds

\* moment(new Date()) > moment(tx.lastChange).add(10, 'seconds')
isAfterNotificationEnd(date, tx) == date > tx.lastChange + NotificationSeconds

\* the for loop over errorTransactions, and the one over successTransactions,
\* from index i on
RECURSIVE timeBasedNotification(_, _, _, _)
timeBasedNotification(resultTransactions, i, notificationTransaction, date) ==
    IF i > Len(resultTransactions) THEN notificationTransaction
    ELSE LET tx == resultTransactions[i]
             after == IF notificationTransaction = undefined /\ isBeforeNotificationEnd(date, tx)
                      THEN [tx |-> tx, withDescription |-> TRUE]
                      ELSE IF notificationTransaction # undefined /\ isAfterNotificationEnd(date, tx)
                      THEN undefined
                      ELSE notificationTransaction
         IN  timeBasedNotification(resultTransactions, i + 1, after, date)

\* mutant: a submitted transaction is always notified with its description
submittedNotification_alwaysDescribed(notificationTransaction, submittedTransactions, date) ==
    IF notificationTransaction = undefined /\ Len(submittedTransactions) > 0
    THEN [tx |-> submittedTransactions[1], withDescription |-> TRUE]
    ELSE notificationTransaction

\* if (!notificationTransaction && submittedTransactions.length > 0)
submittedNotification(notificationTransaction, submittedTransactions, date) ==
    IF notificationTransaction = undefined /\ Len(submittedTransactions) > 0
    THEN [tx |-> submittedTransactions[1], withDescription |-> isBeforeNotificationEnd(date, submittedTransactions[1])]
    ELSE notificationTransaction

\* mutant: the results are looked at before the transactions to sign
determineNotificationTransaction_resultsFirst(signTransactions, errorTransactions, successTransactions, submittedTransactions, date) ==
    LET afterError == timeBasedNotification(errorTransactions, 1, undefined, date)
        afterSuccess == IF afterError = undefined
                        THEN timeBasedNotification(successTransactions, 1, undefined, date)
                        ELSE afterError
        afterSign == IF afterSuccess = undefined /\ Len(signTransactions) > 0
                     THEN [tx |-> signTransactions[1], withDescription |-> TRUE]
                     ELSE afterSuccess
    IN  submittedNotification(afterSign, submittedTransactions, date)

\* the logic for determining the notification transaction
determineNotificationTransaction(signTransactions, errorTransactions, successTransactions, submittedTransactions, date) ==
    LET afterSign == IF Len(signTransactions) > 0
                     THEN [tx |-> signTransactions[1], withDescription |-> TRUE]
                     ELSE undefined
        afterError == IF afterSign = undefined /\ Len(errorTransactions) > 0
                      THEN timeBasedNotification(errorTransactions, 1, afterSign, date)
                      ELSE afterSign
        afterSuccess == IF afterError = undefined /\ Len(successTransactions) > 0
                        THEN timeBasedNotification(successTransactions, 1, afterError, date)
                        ELSE afterError
    IN  submittedNotification(afterSuccess, submittedTransactions, date)

\* filterTransactions, evaluated when new Date() is date
filterTransactions(txs, date) ==
    [ recentTransactions |-> transactionsOfCases(txs, {"success", "error"}),
      pendingTransactions |-> transactionsOfCases(txs, {"sign", "submitted"}),
      notificationTransaction |->
          determineNotificationTransaction(transactionsOfCases(txs, {"sign"}),
                                           transactionsOfCases(txs, {"error"}),
                                           transactionsOfCases(txs, {"success"}),
                                           transactionsOfCases(txs, {"submitted"}),
                                           date) ]

\* the value the stream ends with when sort throws
StreamError == [error |-> ShouldNotGetHere]

\* the function given to map in createTransactionManager
projectTransactions(txs, orders, date) ==
    LET allTransactions == allTransactionsOf(txs, orders)
    IN  IF sortThrows(allTransactions) THEN StreamError
        ELSE filterTransactions(sort(allTransactions), date)

\* mutant: every value is emitted
distinctUntilChanged_off(previous, value) == TRUE

\* distinctUntilChanged(isEqual): whether value is emitted after previous
distinctUntilChanged(previous, value) == previous = undefined \/ value # previous

--------------------------------------------------------------------------
(* The sources of the transaction manager: blockchain transactions in a    *)
(* status of each case of the switch, on-ramp orders of the three          *)
(* providers in a status to sign, a submitted one, a success that is done, *)
(* an error that is not done, and a status the switch does not know.       *)

LastChanges == {0, MaxLastChange}

TxStateStatuses == {"WaitingForApproval", "Propagating", "Success", "Failure"}

OnrampTypeStatuses == {<<"wyre", "pending">>, <<"wyre", "complete">>, <<"latamex", "initialized">>, <<"latamex", "rejected">>, <<"moonpay", "waitingAuthorization">>}

\* the id of the i-th order
orderId(i) == <<"a", "b", "c", "d", "e", "f", "g", "h", "i">>[i]

\* the TxState numbered txNo
TxStates(txNo) == [txNo : {txNo}, status : TxStateStatuses, lastChange : LastChanges]

\* the OnrampOrder with the i-th id
OnrampOrders(i) ==
    {[id |-> orderId(i), type |-> ts[1], status |-> ts[2], date |-> d] : ts \in OnrampTypeStatuses, d \in LastChanges}

Sources == {"transactions$", "onrampOrders$", "every1Seconds$"}

\* combineLatest(...).pipe(map(...), distinctUntilChanged(isEqual)) on an
\* emission of a source at date: nothing until every source has emitted,
\* then the projection of the latest values, emitted when it differs from
\* the last
EmitProjection(txs, orders, date, emitting) ==
    IF emitting = Sources
    THEN LET value == projectTransactions(txs, orders, date)
             emit == distinctUntilChanged(manager, value)
         IN  /\ manager' = IF emit THEN value ELSE manager
             /\ delivered' = emit
    ELSE /\ delivered' = FALSE
         /\ UNCHANGED manager

ManagerInit ==
    /\ started = {}
    /\ transactions = <<>>
    /\ onrampOrders = <<>>
    /\ now = NotificationSeconds - 1
    /\ manager = undefined
    /\ delivered = FALSE
    /\ state = undefined
    /\ calc = undefined
    /\ pc = "idle"

\* transactions$ emits list
TransactionsEmitList(list) ==
    /\ manager # StreamError
    /\ Len(list) + Len(onrampOrders) <= MaxTransactions
    /\ transactions' = list
    /\ started' = started \cup {"transactions$"}
    /\ EmitProjection(list, onrampOrders, now, started \cup {"transactions$"})
    /\ UNCHANGED <<onrampOrders, now>>
    /\ UNCHANGED calculatorVars

\* transactions$ emits: an empty list first, then the same list, one more
\* transaction, or one transaction with another status or lastChange
TransactionsEmit ==
    \/ "transactions$" \notin started /\ TransactionsEmitList(<<>>)
    \/ "transactions$" \in started /\ TransactionsEmitList(transactions)
    \/ "transactions$" \in started /\ \E e \in TxStates(Len(transactions) + 1) :
           TransactionsEmitList(Append(transactions, e))
    \/ "transactions$" \in started /\ \E i \in 1..Len(transactions) : \E status \in TxStateStatuses :
           TransactionsEmitList([transactions EXCEPT ![i].status = status])
    \/ "transactions$" \in started /\ \E i \in 1..Len(transactions) : \E lastChange \in LastChanges :
           TransactionsEmitList([transactions EXCEPT ![i].lastChange = lastChange])

\* onrampOrders$ emits list
OnrampOrdersEmitList(list) ==
    /\ manager # StreamError
    /\ Len(transactions) + Len(list) <= MaxTransactions
    /\ onrampOrders' = list
    /\ started' = started \cup {"onrampOrders$"}
    /\ EmitProjection(transactions, list, now, started \cup {"onrampOrders$"})
    /\ UNCHANGED <<transactions, now>>
    /\ UNCHANGED calculatorVars

\* onrampOrders$ emits: an empty list first, then the same list, one more
\* order, or one order with another status or date
OnrampOrdersEmit ==
    \/ "onrampOrders$" \notin started /\ OnrampOrdersEmitList(<<>>)
    \/ "onrampOrders$" \in started /\ OnrampOrdersEmitList(onrampOrders)
    \/ "onrampOrders$" \in started /\ \E e \in OnrampOrders(Len(onrampOrders) + 1) :
           OnrampOrdersEmitList(Append(onrampOrders, e))
    \/ "onrampOrders$" \in started /\ \E i \in 1..Len(onrampOrders) : \E ts \in OnrampTypeStatuses :
           OnrampOrdersEmitList([onrampOrders EXCEPT ![i].type = ts[1], ![i].status = ts[2]])
    \/ "onrampOrders$" \in started /\ \E i \in 1..Len(onrampOrders) : \E date \in LastChanges :
           OnrampOrdersEmitList([onrampOrders EXCEPT ![i].date = date])

\* the stream has not ended with an error, and the clock is below its bound
TickEnabled == manager # StreamError /\ now < MaxNow

\* the timer of every1Seconds$ fires: at once when subscribed, then a second
\* after the last time
TimerFires ==
    /\ TickEnabled
    /\ now' = IF "every1Seconds$" \in started THEN now + 1 ELSE now
    /\ started' = started \cup {"every1Seconds$"}

\* every1Seconds$ emits, and the latest lists are projected at the new date
Tick ==
    /\ TimerFires
    /\ EmitProjection(transactions, onrampOrders, now', started \cup {"every1Seconds$"})
    /\ UNCHANGED <<transactions, onrampOrders>>
    /\ UNCHANGED calculatorVars

ManagerNext == TransactionsEmit \/ OnrampOrdersEmit \/ Tick

ManagerSpec == ManagerInit /\ [][ManagerNext]_vars

\* the timer fires every second: the steps of ManagerNext that change the
\* clock as TimerFires does are the steps of Tick
ManagerLiveSpec == ManagerSpec /\ WF_<<started, now>>(TimerFires)

--------------------------------------------------------------------------
(* Helpers of the properties of the transaction manager *)

\* the manager has emitted a value
subscribed == manager # undefined

\* the merged transactions of the latest lists, as a set
mergedTransactions ==
    LET all == allTransactionsOf(transactions, onrampOrders)
    IN  {all[i] : i \in 1..Len(all)}

\* the notification of the value last emitted
notified == manager.notificationTransaction

awaitsSignature(tx) == tx.status \in {"initialized", "WaitingForApproval"}

isSubmitted(tx) == tx.status \in {"pending", "Propagating", "WaitingForConfirmation"}

isSuccess(tx) == tx.status \in {"accepted", "completed", "complete", "Success"}

isError(tx) == tx.status \in {"rejected", "expired", "incomplete", "failed", "CancelledByTheUser", "Error", "Failure"}

\* tx changed less than 10 seconds before the evaluation
changedRecently(tx) == now - tx.lastChange < NotificationSeconds

\* the values are evaluated at the clock: an emitted value is the projection
\* of the latest lists at now
ManagerIsProjection ==
    subscribed => manager = projectTransactions(transactions, onrampOrders, now)

--------------------------------------------------------------------------
(* C12: whenever at least one transaction awaits signature (status         *)
(* 'initialized' or WaitingForApproval), the notificationTransaction is a  *)
(* transaction awaiting signature, with withDescription = true, whatever   *)
(* error, success or submitted transactions exist and however recent.      *)
C12_AwaitingSignatureFirst ==
    (subscribed /\ \E tx \in mergedTransactions : awaitsSignature(tx)) =>
        /\ notified # undefined
        /\ awaitsSignature(notified.tx)
        /\ notified.tx \in mergedTransactions
        /\ notified.withDescription = TRUE

\* a transaction to sign is notified although an error changed after it,
\* within the last 10 seconds
C12_Witness ==
    /\ subscribed
    /\ notified # undefined
    /\ awaitsSignature(notified.tx)
    /\ \E tx \in mergedTransactions :
          isError(tx) /\ changedRecently(tx) /\ tx.lastChange > notified.tx.lastChange

--------------------------------------------------------------------------
(* C13: whenever no transaction awaits signature and at least one error    *)
(* transaction changed less than 10 seconds before the evaluation, the     *)
(* notificationTransaction is an error transaction changed within the last *)
(* 10 seconds, for any number and age of the other transactions.           *)
C13_RecentErrorSecond ==
    (/\ subscribed
     /\ \A tx \in mergedTransactions : ~awaitsSignature(tx)
     /\ \E tx \in mergedTransactions : isError(tx) /\ changedRecently(tx)) =>
        /\ notified # undefined
        /\ isError(notified.tx)
        /\ changedRecently(notified.tx)

--------------------------------------------------------------------------
\* the transactions of the tier of tx that the tier may notify
eligibleInTierOf(tx) ==
    IF awaitsSignature(tx) THEN {t \in mergedTransactions : awaitsSignature(t)}
    ELSE IF isError(tx) THEN {t \in mergedTransactions : isError(t) /\ changedRecently(t)}
    ELSE IF isSuccess(tx) THEN {t \in mergedTransactions : isSuccess(t) /\ changedRecently(t)}
    ELSE {t \in mergedTransactions : isSubmitted(t)}

(* C14: the notificationTransaction is the transaction with the greatest   *)
(* lastChange among the eligible transactions of its tier (awaiting        *)
(* signature, error within 10s, success within 10s, submitted), for every  *)
(* mix of blockchain and on-ramp transactions and statuses.                *)
C14_MostRecentOfTier ==
    (subscribed /\ notified # undefined) =>
        \A tx \in eligibleInTierOf(notified.tx) : tx.lastChange <= notified.tx.lastChange

--------------------------------------------------------------------------
\* the notification is an error or a success transaction
resultNotified ==
    /\ subscribed
    /\ notified # undefined
    /\ (isError(notified.tx) \/ isSuccess(notified.tx))

\* a tick at which the lists are what they were and 10 seconds have elapsed
\* since the lastChange of the result notified
C15_WindowElapsesAtTick ==
    /\ resultNotified
    /\ now' # now
    /\ transactions' = transactions
    /\ onrampOrders' = onrampOrders
    /\ now' - notified.tx.lastChange >= NotificationSeconds

\* a value is emitted in which the result is no longer the notification
C15_Retracted ==
    /\ delivered'
    /\ (manager'.notificationTransaction = undefined
            \/ manager'.notificationTransaction.tx # notified.tx)
    /\ Cardinality(mergedTransactions) = 1 => manager'.notificationTransaction = undefined

(* C15: if an error or success transaction is the notification and the     *)
(* lists emit nothing new, then at the 1-second tick at which 10 seconds   *)
(* have elapsed since its lastChange the manager emits a value in which    *)
(* that transaction is no longer the notification (undefined when there is *)
(* no other transaction); and the timer firing every second, a notified    *)
(* result does not stay notified for ever.                                 *)
C15_ResultRetractedAtTick ==
    /\ [][C15_WindowElapsesAtTick => C15_Retracted]_vars
    /\ (resultNotified ~> ~resultNotified)

\* an error or success transaction is the notification and its 10 seconds
\* end with the next tick
C15_Witness ==
    /\ resultNotified
    /\ now < MaxNow
    /\ now + 1 - notified.tx.lastChange = NotificationSeconds
    /\ Cardinality(mergedTransactions) > 1

--------------------------------------------------------------------------
\* transactions of every kind in every status of the switch, a status it
\* does not know, and every lastChange
TransactionUniverse ==
    {[kind |-> k, id |-> "x", status |-> st, lastChange |-> lc, raw |-> [status |-> st]] :
        k \in {"blockchain", "wyre", "moonpay", "latamex"},
        st \in TxStatus \cup {"initialized", "pending", "accepted", "completed", "complete", "rejected", "expired", "incomplete", "failed", "waitingAuthorization"},
        lc \in LastChanges}

\* compareTransactions(t1, t2) returns the number the claim says
C16_ComparesAsClaimed(t1, t2) ==
    /\ compareTransactions(t1, t2) \in Int
    /\ isTxDone(t1) = isTxDone(t2) => compareTransactions(t1, t2) = t2.lastChange - t1.lastChange
    /\ (isTxDone(t1) /\ ~isTxDone(t2)) => compareTransactions(t1, t2) = 1
    /\ (~isTxDone(t1) /\ isTxDone(t2)) => compareTransactions(t1, t2) = -1

\* every pair of transactions of any kind and status
C16_EveryPairComparesAsClaimed ==
    \A t1 \in TransactionUniverse, t2 \in TransactionUniverse : C16_ComparesAsClaimed(t1, t2)

(* C16: the 'Should not get here!' assertion of compareTransactions is     *)
(* unreachable: for every pair of transactions of any kind and status the  *)
(* comparator returns a number (by lastChange descending when both are     *)
(* done or both not done, 1 when only the first is done, -1 when only the  *)
(* second is), so sorting the merged list never throws.                    *)
C16_ComparatorNeverThrows ==
    /\ C16_EveryPairComparesAsClaimed
    /\ \A t1 \in mergedTransactions, t2 \in mergedTransactions : C16_ComparesAsClaimed(t1, t2)
    /\ ~sortThrows(allTransactionsOf(transactions, onrampOrders))
    /\ manager # StreamError

\* a done blockchain transaction and a more recent on-ramp order that is not
\* done have been sorted: the order comes first in the list emitted
C16_Witness ==
    /\ subscribed
    /\ Len(manager.pendingTransactions) = 1
    /\ Len(manager.recentTransactions) = 1
    /\ manager.pendingTransactions[1].kind # "blockchain"
    /\ ~isTxDone(manager.pendingTransactions[1])
    /\ manager.recentTransactions[1].kind = "blockchain"
    /\ isTxDone(manager.recentTransactions[1])
    /\ compareTransactions(manager.recentTransactions[1], manager.pendingTransactions[1]) = 1

--------------------------------------------------------------------------
(* C17: the stream never emits two consecutive values that are             *)
(* structurally equal: a tick or an input emission that yields the value   *)
(* last emitted produces no new emission.                                  *)
C17_NoEqualConsecutiveValues ==
    [][delivered' => manager' # manager]_vars

\* the last source event yielded the value already emitted, and emitted nothing
C17_Witness ==
    /\ subscribed
    /\ ~delivered
    /\ manager = projectTransactions(transactions, onrampOrders, now)
    /\ manager.notificationTransaction # undefined

--------------------------------------------------------------------------
\* the merged list of the latest lists, sorted
sortedTransactions == sort(allTransactionsOf(transactions, onrampOrders))

\* the elements of list, as a set
elementsOf(list) == {list[i] : i \in 1..Len(list)}

\* the status of tx is one of a case of the switch
isRecognised(tx) == awaitsSignature(tx) \/ isSubmitted(tx) \/ isSuccess(tx) \/ isError(tx)

(* C19: filterTransactions partitions the merged list: a transaction with  *)
(* a recognised status is in exactly one of pendingTransactions (awaiting  *)
(* signature and submitted) and recentTransactions (success and error), in *)
(* the relative order of the sorted input; a transaction with a status not *)
(* recognised is in neither; and the notificationTransaction, when         *)
(* defined, is a member of one of the two lists.                           *)
C19_ListsPartitionTransactions ==
    subscribed =>
        /\ manager.pendingTransactions =
               SelectSeq(sortedTransactions, LAMBDA tx : awaitsSignature(tx) \/ isSubmitted(tx))
        /\ manager.recentTransactions =
               SelectSeq(sortedTransactions, LAMBDA tx : isSuccess(tx) \/ isError(tx))
        /\ elementsOf(manager.pendingTransactions) \cap elementsOf(manager.recentTransactions) = {}
        /\ \A tx \in mergedTransactions :
               isRecognised(tx) <=>
                   tx \in elementsOf(manager.pendingTransactions) \cup elementsOf(manager.recentTransactions)
        /\ Len(manager.pendingTransactions) + Len(manager.recentTransactions)
               = Cardinality({tx \in mergedTransactions : isRecognised(tx)})
        /\ notified # undefined =>
               notified.tx \in elementsOf(manager.pendingTransactions) \cup elementsOf(manager.recentTransactions)

\* an order in a status the switch does not know is in neither list, next to
\* a transaction that is in one of them and is notified
C19_Witness ==
    /\ subscribed
    /\ \E tx \in mergedTransactions : ~isRecognised(tx)
    /\ Len(manager.pendingTransactions) + Len(manager.recentTransactions) = 1
    /\ Cardinality(mergedTransactions) = 2
    /\ notified # undefined

--------------------------------------------------------------------------
\* the submitted transactions of the sorted list
C20_Submitted == SelectSeq(sortedTransactions, isSubmitted)

(* C20: an expired result is never shown: a notificationTransaction of     *)
(* error or success status changed strictly less than 10 seconds before    *)
(* the evaluation; and when no transaction awaits signature and no error   *)
(* or success transaction changed within the last 10 seconds, the          *)
(* notification is the first submitted transaction, withDescription true   *)
(* only while it is less than 10 seconds old, or undefined if there is     *)
(* none.                                                                   *)
C20_ExpiredResultNeverShown ==
    subscribed =>
        /\ (notified # undefined /\ (isError(notified.tx) \/ isSuccess(notified.tx))) =>
               changedRecently(notified.tx)
        /\ (\A tx \in mergedTransactions :
                /\ ~awaitsSignature(tx)
                /\ (isError(tx) \/ isSuccess(tx)) => ~changedRecently(tx)) =>
               IF Len(C20_Submitted) = 0
               THEN notified = undefined
               ELSE notified = [tx |-> C20_Submitted[1], withDescription |-> changedRecently(C20_Submitted[1])]

\* an error has expired and a submitted transaction more than 10 seconds old
\* is notified without its description
C20_Witness ==
    /\ subscribed
    /\ \E tx \in mergedTransactions : isError(tx) /\ ~changedRecently(tx)
    /\ notified # undefined
    /\ isSubmitted(notified.tx)
    /\ ~changedRecently(notified.tx)
    /\ notified.withDescription = FALSE

==========================================================================
